---------------------------- MODULE Spec2Model ----------------------------
(* Model of the SpacetimeDB benchmark module                               *)
(* (src/spacetimedb-project/src/lib.rs): three tables (counter, message,   *)
(* event) and the reducers increment_counter, create_message,              *)
(* create_event, init and on_module_update.                                *)
(*                                                                         *)
(* Every reducer invocation runs as one transaction of the host: the       *)
(* #[reducer] attribute hands the body a ReducerContext whose db handle    *)
(* works on the transaction's view of the tables and whose timestamp is    *)
(* fixed when the transaction starts.  The body is modelled statement by   *)
(* statement (tx.pc is the position in the body); the committed tables     *)
(* are what a client outside a transaction reads.                          *)
EXTENDS Integers, Sequences, FiniteSets, Bags, TLC

(* ------------------------------ bounds --------------------------------- *)

\* width of the model's stand-in for i64 (two's complement, I64Bits bits)
I64Bits == 3
\* number of reducer invocations issued in one behaviour
MaxCalls == 3
\* last value of the host clock
MaxTime == 1

(* --------------------------- value domains ----------------------------- *)

Pow2(n) == 2 ^ n

I64Max == Pow2(I64Bits - 1) - 1
I64Min == 0 - Pow2(I64Bits - 1)

InI64(x) == x >= I64Min /\ x <= I64Max

\* two's complement reduction of an exact sum to the i64 stand-in
WrapI64(x) == ((x - I64Min) % Pow2(I64Bits)) + I64Min

Names == {"visits", "clicks"}
Amounts == {1, -1, I64Max}
MessageArgs == {<<"alice", "hi", "general">>, <<"bob", "yo", "random">>}
EventArgs == {<<"click", "web", "{}">>, <<"view", "app", "[]">>}

None == [none |-> TRUE]
NoTx == [pc |-> "idle"]
NoOutcome == [status |-> "none"]

(* ------------------------------- state --------------------------------- *)

VARIABLES
    counter,        \* committed rows of table counter
    message,        \* committed rows of table message
    event,          \* committed rows of table event
    seqs,           \* committed next auto_inc value of message and of event
    clock,          \* host clock
    overflowChecks, \* whether the build panics on integer overflow
    pending,        \* bag of the invocations issued by clients and not yet started
    issued,         \* number of invocations issued so far
    tx,             \* the running transaction, or NoTx
    history,        \* committed invocations, in commit order
    last            \* outcome of the invocation that finished last

vars == <<counter, message, event, seqs, clock, overflowChecks, pending,
          issued, tx, history, last>>

tables == <<counter, message, event, seqs>>

(* ----------------------------- table rows ------------------------------ *)

Counter(name, value, last_updated) ==
    [name |-> name, value |-> value, last_updated |-> last_updated]

Message(id, sender, content, channel, timestamp) ==
    [id |-> id, sender |-> sender, content |-> content,
     channel |-> channel, timestamp |-> timestamp]

Event(id, event_type, source, data, timestamp) ==
    [id |-> id, event_type |-> event_type, source |-> source,
     data |-> data, timestamp |-> timestamp]

(* --------------------------- table operations -------------------------- *)

\* insert into a table whose primary key is the column name
CounterInsert(tbl, row) ==
    IF \E r \in tbl : r.name = row.name
    THEN [err |-> "UniqueConstraintViolation", tbl |-> tbl]
    ELSE [err |-> "", tbl |-> tbl \cup {row}]

\* delete(row): removes the row equal to the argument
CounterDelete(tbl, row) ==
    IF row \in tbl
    THEN [err |-> "", tbl |-> tbl \ {row}]
    ELSE [err |-> "NotFound", tbl |-> tbl]

CounterFindFirst(tbl, name) == IF tbl = {} THEN {None} ELSE tbl

CounterFindOther(tbl, name) ==
    IF \E r \in tbl : r.name # name
    THEN {r \in tbl : r.name # name}
    ELSE {None}

\* the rows iter().find(|c| c.name == name) can return: the first row of the
\* scan with that name, the scan order being unspecified
CounterFind(tbl, name) ==
    IF \E r \in tbl : r.name = name
    THEN {r \in tbl : r.name = name}
    ELSE {None}

BumpSeqGlobal(s, t) == [u \in DOMAIN s |-> s[u] + 1]

BumpSeqDown(s, t) == [s EXCEPT ![t] = @ - 1]

\* the sequence of table t moves to its next value
BumpSeq(s, t) == [s EXCEPT ![t] = @ + 1]

AutoIncInsertOverwrite(tbl, s, t, row) ==
    LET r == [row EXCEPT !.id = s[t]] IN
    [err |-> "", tbl |-> {r}, seqs |-> BumpSeq(s, t), id |-> r.id]

\* insert into a table with an #[auto_inc] primary key id: the placeholder 0
\* is replaced by the next value of the table's sequence
AutoIncInsert(tbl, s, t, row) ==
    LET r == IF row.id = 0 THEN [row EXCEPT !.id = s[t]] ELSE row IN
    IF \E q \in tbl : q.id = r.id
    THEN [err |-> "UniqueConstraintViolation", tbl |-> tbl, seqs |-> s, id |-> 0]
    ELSE [err |-> "", tbl |-> tbl \cup {r},
          seqs |-> IF row.id = 0 THEN BumpSeq(s, t) ELSE s, id |-> r.id]

(* ------------------------------- Init ---------------------------------- *)

Init ==
    /\ counter = {}
    /\ message = {}
    /\ event = {}
    /\ seqs = [message |-> 1, event |-> 1]
    /\ clock = 0
    /\ overflowChecks \in BOOLEAN
    /\ pending = EmptyBag
    /\ issued = 0
    /\ tx = NoTx
    /\ history = <<>>
    /\ last = NoOutcome


(* ------------------------- clients and the clock ----------------------- *)

Calls ==
    [op : {"increment_counter"}, args : Names \X Amounts]
        \cup [op : {"create_message"}, args : MessageArgs]
        \cup [op : {"create_event"}, args : EventArgs]
        \cup [op : {"init", "on_module_update"}, args : {<<>>}]

\* a client issues a reducer invocation; it waits until the host runs it
Invoke ==
    /\ issued < MaxCalls
    /\ \E c \in Calls : pending' = pending (+) SetToBag({c})
    /\ issued' = issued + 1
    /\ UNCHANGED <<counter, message, event, seqs, clock, overflowChecks, tx,
                   history, last>>

\* time passes on the host, also while a reducer body runs
Tick ==
    /\ clock < MaxTime
    /\ clock' = clock + 1
    /\ UNCHANGED <<counter, message, event, seqs, overflowChecks, pending,
                   issued, tx, history, last>>

(* ----------------------- the transaction executor ---------------------- *)

FirstPc(op) ==
    CASE op = "increment_counter" -> "find"
      [] op = "create_message" -> "insert"
      [] op = "create_event" -> "insert"
      [] OTHER -> "body"

\* the host starts one waiting invocation when no other one is running: it
\* opens the transaction on the committed tables and binds ctx.timestamp
Begin ==
    /\ tx = NoTx
    /\ \E c \in BagToSet(pending) :
          /\ pending' = pending (-) SetToBag({c})
          /\ tx' = [pc |-> FirstPc(c.op), call |-> c, timestamp |-> clock,
                    counter |-> counter, message |-> message, event |-> event,
                    seqs |-> seqs, existing |-> None, new_value |-> 0,
                    overflow |-> FALSE, id |-> 0, pre |-> tables]
    /\ UNCHANGED <<counter, message, event, seqs, clock, overflowChecks, issued,
                   history, last>>

\* the panic of an addition whose result does not fit (overflow checks on)
AddOverflow == "attempt to add with overflow"

RollbackPublish(err) ==
    /\ tx' = NoTx
    /\ last' = [status |-> "aborted", prev |-> last.status, at |-> tx.pc,
                err |-> err, overflow |-> (err = AddOverflow), pre |-> tx.pre]
    /\ counter' = tx.counter
    /\ message' = tx.message
    /\ event' = tx.event
    /\ seqs' = tx.seqs
    /\ UNCHANGED <<clock, overflowChecks, pending, issued, history>>

\* the invocation fails: the transaction's writes are dropped
Rollback(err) ==
    /\ tx' = NoTx
    /\ last' = [status |-> "aborted", prev |-> last.status, at |-> tx.pc,
                err |-> err, overflow |-> (err = AddOverflow), pre |-> tx.pre]
    /\ UNCHANGED <<counter, message, event, seqs, clock, overflowChecks, pending,
                   issued, history>>

\* the body continues at pc with the fields of w replaced
Step(w) ==
    /\ tx' = w
    /\ UNCHANGED <<counter, message, event, seqs, clock, overflowChecks, pending,
                   issued, history, last>>

CommitMerge ==
    /\ tx.pc = "done"
    /\ counter' = counter \cup tx.counter
    /\ message' = message \cup tx.message
    /\ event' = event \cup tx.event
    /\ seqs' = tx.seqs
    /\ history' = Append(history, [call |-> tx.call, timestamp |-> tx.timestamp,
                                   id |-> tx.id])
    /\ last' = [status |-> "committed", prev |-> last.status,
                overflow |-> tx.overflow]
    /\ tx' = NoTx
    /\ UNCHANGED <<clock, overflowChecks, pending, issued>>

\* the body returned: all writes of the transaction become visible at once
Commit ==
    /\ tx.pc = "done"
    /\ counter' = tx.counter
    /\ message' = tx.message
    /\ event' = tx.event
    /\ seqs' = tx.seqs
    /\ history' = Append(history, [call |-> tx.call, timestamp |-> tx.timestamp,
                                   id |-> tx.id])
    /\ last' = [status |-> "committed", prev |-> last.status,
                overflow |-> tx.overflow]
    /\ tx' = NoTx
    /\ UNCHANGED <<clock, overflowChecks, pending, issued>>

\* the host ends the running invocation with an error at any point of its body
Abort ==
    /\ tx.pc # "idle"
    /\ Rollback("ReducerError")

(* ------------------------------ reducers ------------------------------- *)

Running(op, pc) == tx.pc = pc /\ tx.call.op = op

TimestampNow(t) == clock

\* let timestamp = ctx.timestamp;
Timestamp(t) == t.timestamp

\* let existing = counters.iter().find(|c| c.name == name);
increment_counter_find ==
    /\ Running("increment_counter", "find")
    /\ \E r \in CounterFind(tx.counter, tx.call.args[1]) :
          Step([tx EXCEPT !.existing = r,
                          !.pc = IF r = None THEN "insert_new" ELSE "add"])

\* let new_value = counter.value + amount;
increment_counter_add ==
    /\ Running("increment_counter", "add")
    /\ LET sum == tx.existing.value + tx.call.args[2] IN
       IF InI64(sum)
       THEN Step([tx EXCEPT !.new_value = sum, !.pc = "delete"])
       ELSE IF overflowChecks
            THEN Rollback(AddOverflow)
            ELSE Step([tx EXCEPT !.new_value = WrapI64(sum), !.overflow = TRUE,
                                 !.pc = "delete"])

increment_counter_delete_through ==
    /\ Running("increment_counter", "delete")
    /\ LET d == CounterDelete(tx.counter, tx.existing) IN
       /\ d.err = ""
       /\ tx' = [tx EXCEPT !.counter = d.tbl, !.pc = "insert_upd"]
       /\ counter' = d.tbl
       /\ UNCHANGED <<message, event, seqs, clock, overflowChecks, pending,
                      issued, history, last>>

increment_counter_delete_skip ==
    /\ Running("increment_counter", "delete")
    /\ Step([tx EXCEPT !.pc = "insert_upd"])

\* counters.delete(counter);
increment_counter_delete ==
    /\ Running("increment_counter", "delete")
    /\ LET d == CounterDelete(tx.counter, tx.existing) IN
       IF d.err = ""
       THEN Step([tx EXCEPT !.counter = d.tbl, !.pc = "insert_upd"])
       ELSE Rollback(d.err)

increment_counter_insert_updated_skip ==
    /\ Running("increment_counter", "insert_upd")
    /\ Step([tx EXCEPT !.pc = "done"])

\* counters.insert(Counter { name, value: new_value, last_updated: timestamp });
increment_counter_insert_updated ==
    /\ Running("increment_counter", "insert_upd")
    /\ LET i == CounterInsert(tx.counter,
                    Counter(tx.call.args[1], tx.new_value, Timestamp(tx))) IN
       IF i.err = ""
       THEN Step([tx EXCEPT !.counter = i.tbl, !.pc = "done"])
       ELSE Rollback(i.err)

\* counters.insert(Counter { name, value: amount, last_updated: timestamp });
increment_counter_insert_new ==
    /\ Running("increment_counter", "insert_new")
    /\ LET i == CounterInsert(tx.counter,
                    Counter(tx.call.args[1], tx.call.args[2], Timestamp(tx))) IN
       IF i.err = ""
       THEN Step([tx EXCEPT !.counter = i.tbl, !.pc = "done"])
       ELSE Rollback(i.err)

increment_counter ==
    \/ increment_counter_find
    \/ increment_counter_add
    \/ increment_counter_delete
    \/ increment_counter_insert_updated
    \/ increment_counter_insert_new

create_message_swapped ==
    /\ Running("create_message", "insert")
    /\ LET a == tx.call.args
           i == AutoIncInsert(tx.message, tx.seqs, "message",
                              Message(0, a[2], a[1], a[3], Timestamp(tx))) IN
       IF i.err = ""
       THEN Step([tx EXCEPT !.message = i.tbl, !.seqs = i.seqs, !.id = i.id,
                            !.pc = "done"])
       ELSE Rollback(i.err)

\* ctx.db.message().insert(Message { id: 0, sender, content, channel, timestamp });
create_message ==
    /\ Running("create_message", "insert")
    /\ LET a == tx.call.args
           i == AutoIncInsert(tx.message, tx.seqs, "message",
                              Message(0, a[1], a[2], a[3], Timestamp(tx))) IN
       IF i.err = ""
       THEN Step([tx EXCEPT !.message = i.tbl, !.seqs = i.seqs, !.id = i.id,
                            !.pc = "done"])
       ELSE Rollback(i.err)

create_event_fixed_id ==
    /\ Running("create_event", "insert")
    /\ LET a == tx.call.args
           i == AutoIncInsert(tx.event, tx.seqs, "event",
                              Event(1, a[1], a[2], a[3], Timestamp(tx))) IN
       IF i.err = ""
       THEN Step([tx EXCEPT !.event = i.tbl, !.seqs = i.seqs, !.id = i.id,
                            !.pc = "done"])
       ELSE Rollback(i.err)

\* ctx.db.event().insert(Event { id: 0, event_type, source, data, timestamp });
create_event ==
    /\ Running("create_event", "insert")
    /\ LET a == tx.call.args
           i == AutoIncInsert(tx.event, tx.seqs, "event",
                              Event(0, a[1], a[2], a[3], Timestamp(tx))) IN
       IF i.err = ""
       THEN Step([tx EXCEPT !.event = i.tbl, !.seqs = i.seqs, !.id = i.id,
                            !.pc = "done"])
       ELSE Rollback(i.err)

init_seed ==
    /\ Running("init", "body")
    /\ Step([tx EXCEPT !.message = AutoIncInsert(tx.message, tx.seqs, "message",
                            Message(0, "system", "welcome", "general",
                                    Timestamp(tx))).tbl,
                       !.pc = "done"])

\* pub fn init(_ctx) { }
init ==
    /\ Running("init", "body")
    /\ Step([tx EXCEPT !.pc = "done"])

\* pub fn on_module_update(_ctx) { }
on_module_update ==
    /\ Running("on_module_update", "body")
    /\ Step([tx EXCEPT !.pc = "done"])

(* ------------------------------ behaviours ----------------------------- *)

Next ==
    \/ Invoke
    \/ Tick
    \/ Begin
    \/ increment_counter
    \/ create_message
    \/ create_event
    \/ init
    \/ on_module_update
    \/ Commit
    \/ Abort

Spec == Init /\ [][Next]_vars

(* ----------------- reading the tables and the history ------------------ *)

IsInc(e, n) == e.call.op = "increment_counter" /\ e.call.args[1] = n

\* positions of the committed increment_counter invocations on name n
IncsOn(h, n) == {i \in 1..Len(h) : IsInc(h[i], n)}

\* positions of the committed invocations of reducer op
CommitsOf(h, op) == {i \in 1..Len(h) : h[i].call.op = op}

RECURSIVE SumAmounts(_, _)
SumAmounts(h, I) ==
    IF I = {} THEN 0
    ELSE LET i == CHOOSE j \in I : TRUE IN
         h[i].call.args[2] + SumAmounts(h, I \ {i})

RowsOf(tbl, n) == {r \in tbl : r.name = n}

\* value a point lookup of n reads, 0 standing for "no row"
ValueOf(tbl, n) ==
    IF RowsOf(tbl, n) = {} THEN 0 ELSE (CHOOSE r \in RowsOf(tbl, n) : TRUE).value

\* the effect of one invocation run alone, from its first to its last statement
RunAlone(st, e) ==
    LET a == e.call.args IN
    CASE e.call.op = "increment_counter" ->
           [st EXCEPT !.counter =
               {r \in st.counter : r.name # a[1]}
                  \cup {Counter(a[1], WrapI64(ValueOf(st.counter, a[1]) + a[2]),
                                e.timestamp)}]
      [] e.call.op = "create_message" ->
           [st EXCEPT !.message = @ \cup {Message(st.seqs.message, a[1], a[2], a[3],
                                                  e.timestamp)},
                      !.seqs.message = @ + 1]
      [] e.call.op = "create_event" ->
           [st EXCEPT !.event = @ \cup {Event(st.seqs.event, a[1], a[2], a[3],
                                              e.timestamp)},
                      !.seqs.event = @ + 1]
      [] OTHER -> st

RECURSIVE Serial(_)
\* the tables after running the invocations of h one after the other
Serial(h) ==
    IF h = <<>>
    THEN [counter |-> {}, message |-> {}, event |-> {},
          seqs |-> [message |-> 1, event |-> 1]]
    ELSE RunAlone(Serial(SubSeq(h, 1, Len(h) - 1)), h[Len(h)])

Committed == [counter |-> counter, message |-> message, event |-> event,
              seqs |-> seqs]

(* -------------------------------- claims ------------------------------- *)

\* C1: for every name, the value stored in its Counter row equals the exact
\* sum a1 + ... + an of the amounts of the committed increment_counter
\* invocations on that name, whatever else was committed in between.
C1_ValueIsSum ==
    \A n \in Names :
        IncsOn(history, n) # {} =>
            /\ RowsOf(counter, n) # {}
            /\ \A r \in RowsOf(counter, n) :
                  r.value = SumAmounts(history, IncsOn(history, n))

\* C2: when the last N committed increment_counter invocations on a name all
\* add +1, the counter's value is exactly N greater than it was before the
\* first of them (N itself for a name that had no row).
C2_NoLostUpdate ==
    \A n \in Names : \A k \in 0..Len(history) :
        LET I == {i \in IncsOn(history, n) : i > k} IN
        (I # {} /\ \A i \in I : history[i].call.args[2] = 1) =>
            /\ RowsOf(counter, n) # {}
            /\ ValueOf(counter, n) =
                 ValueOf(Serial(SubSeq(history, 1, k)).counter, n) + Cardinality(I)

\* C3: the committed Counter table holds at most one row per name.
C3_OneRowPerName ==
    \A r1 \in counter : \A r2 \in counter : r1.name = r2.name => r1 = r2

\* C3 witness: an update of an existing row (delete then insert) was committed.
C3_Witness ==
    \E n \in Names :
        /\ Cardinality(IncsOn(history, n)) >= 2
        /\ Cardinality(RowsOf(counter, n)) = 1

IdsIncrease(op, tbl) ==
    /\ \A i \in CommitsOf(history, op) : \A j \in CommitsOf(history, op) :
          i < j => history[i].id < history[j].id
    /\ \A i \in CommitsOf(history, op) : \E r \in tbl : r.id = history[i].id
    /\ \A r1 \in tbl : \A r2 \in tbl : r1.id = r2.id => r1 = r2
    /\ Cardinality(tbl) = Cardinality(CommitsOf(history, op))

\* C4: in the Message table and in the Event table the ids of the committed
\* rows strictly increase in commit order and no id is held by two rows, also
\* when invocations aborted in between.
C4_IdsIncrease ==
    /\ IdsIncrease("create_message", message)
    /\ IdsIncrease("create_event", event)

\* C4 witness: two messages are committed, the second one right after an
\* invocation that aborted.
C4_Witness ==
    /\ Cardinality(message) = 2
    /\ last.status = "committed"
    /\ last.prev = "aborted"
    /\ history[Len(history)].call.op = "create_message"

KthGetsK(op, tbl) ==
    \A i \in CommitsOf(history, op) :
        LET k == Cardinality({j \in CommitsOf(history, op) : j <= i}) IN
        /\ history[i].id = k
        /\ \E r \in tbl : r.id = k

\* C5: the k-th committed create_message receives id k and the k-th committed
\* create_event receives id k, whatever is committed in between.
C5_KthGetsK ==
    /\ KthGetsK("create_message", message)
    /\ KthGetsK("create_event", event)

\* C5 witness: create_message, create_event, create_message committed in
\* this order.
C5_Witness ==
    /\ Len(history) = 3
    /\ history[1].call.op = "create_message"
    /\ history[2].call.op = "create_event"
    /\ history[3].call.op = "create_message"

\* C6: a committed Message or Event row stays in its table, unchanged, in
\* every later state.
C6_AppendOnly ==
    [][message \subseteq message' /\ event \subseteq event']_vars

\* C6 witness: a message and an event are committed and further invocations
\* (a counter update and a lifecycle reducer among them) were committed later.
C6_Witness ==
    /\ Len(history) >= 3
    /\ history[1].call.op \in {"create_message", "create_event"}
    /\ history[Len(history)].call.op \in {"init", "on_module_update",
                                          "increment_counter"}
    /\ message \cup event # {}

\* C7: an increment_counter whose addition leaves the i64 range aborts and
\* leaves the Counter table as it was before the call.
C7_OverflowAborts ==
    (last.status # "none" /\ last.overflow) =>
        (last.status = "aborted" /\ counter = last.pre[1])

\* C8: after an invocation aborted, the tables are the tables from before
\* the invocation started.
C8_AbortLeavesNoWrites ==
    last.status = "aborted" => tables = last.pre

\* C8 witness: an increment_counter failed after its delete and before its
\* insert, and the row of the counter is still there.
C8_Witness ==
    /\ last.status = "aborted"
    /\ last.at = "insert_upd"
    /\ counter # {}
    /\ tx = NoTx

\* C9: in every state, also while an invocation is half done, the tables a
\* client reads are the result of running the committed invocations one at a
\* time in commit order; the row of a counter under update is never missing.
C9_Serializable ==
    /\ Committed = Serial(history)
    /\ (tx.pc \in {"add", "delete", "insert_upd"} =>
            tx.existing \in counter)

\* C9 witness: an update has deleted the old row in its transaction and not
\* yet inserted the new one, while another invocation is waiting.
C9_Witness ==
    /\ tx.pc = "insert_upd"
    /\ RowsOf(tx.counter, tx.call.args[1]) = {}
    /\ RowsOf(counter, tx.call.args[1]) # {}
    /\ pending # EmptyBag

LastIncOn(n) ==
    CHOOSE i \in IncsOn(history, n) : \A j \in IncsOn(history, n) : j <= i

\* C10: every row carries the timestamp bound at the start of the invocation
\* that wrote it; a counter's last_updated is the timestamp of the most
\* recent committed increment_counter on its name.
C10_OneTimestamp ==
    /\ tx # NoTx =>
          /\ \A r \in tx.counter \ counter : r.last_updated = tx.timestamp
          /\ \A r \in tx.message \ message : r.timestamp = tx.timestamp
          /\ \A r \in tx.event \ event : r.timestamp = tx.timestamp
    /\ \A r \in counter :
          /\ IncsOn(history, r.name) # {}
          /\ r.last_updated = history[LastIncOn(r.name)].timestamp
    /\ \A i \in CommitsOf(history, "create_message") :
          \A r \in message : r.id = history[i].id => r.timestamp = history[i].timestamp
    /\ \A i \in CommitsOf(history, "create_event") :
          \A r \in event : r.id = history[i].id => r.timestamp = history[i].timestamp

\* C10 witness: a counter was incremented twice at different times, and the
\* clock moved on after the second invocation had started.
C10_Witness ==
    \E n \in Names :
        /\ Cardinality(IncsOn(history, n)) = 2
        /\ \E i \in IncsOn(history, n) : history[i].timestamp = 0
        /\ \E r \in counter : r.name = n /\ r.last_updated = 1
        /\ \E r \in message : r.timestamp < clock

\* C11: once a Counter row exists for a name, a row with that name exists in
\* every later committed state.
C11_CounterRowsStay ==
    [][\A n \in Names : RowsOf(counter, n) # {} => RowsOf(counter', n) # {}]_vars

\* C11 witness: a counter created by one invocation was updated by a later
\* one, with a third invocation committed after its creation as well.
C11_Witness ==
    \E n \in Names :
        /\ Len(history) = 3
        /\ IsInc(history[1], n)
        /\ IsInc(history[3], n)
        /\ RowsOf(counter, n) # {}

Lifecycle == {"init", "on_module_update"}

\* C12: no step of an init or on_module_update invocation, its commit
\* included, changes the Counter, Message or Event table or an id sequence.
C12_LifecycleNoMutation ==
    [][(tx.pc # "idle" /\ tx.call.op \in Lifecycle) => tables' = tables]_vars

\* C12 witness: init and on_module_update were both committed on tables that
\* hold a row.
C12_Witness ==
    /\ \E i \in 1..Len(history) : history[i].call.op = "init"
    /\ \E i \in 1..Len(history) : history[i].call.op = "on_module_update"
    /\ counter \cup message \cup event # {}
    /\ history[1].call.op \notin Lifecycle

\* C13: for every committed create_message (create_event) the table holds
\* exactly one row with the id it was given; the row's other fields are the
\* arguments of the call and the timestamp of the invocation, its id is not
\* the placeholder 0, and the table holds no other rows.
C13_RoundTrip ==
    /\ \A i \in CommitsOf(history, "create_message") :
          LET a == history[i].call.args IN
          /\ history[i].id # 0
          /\ {r \in message : r.id = history[i].id} =
                {[id |-> history[i].id, sender |-> a[1], content |-> a[2],
                  channel |-> a[3], timestamp |-> history[i].timestamp]}
    /\ \A i \in CommitsOf(history, "create_event") :
          LET a == history[i].call.args IN
          /\ history[i].id # 0
          /\ {r \in event : r.id = history[i].id} =
                {[id |-> history[i].id, event_type |-> a[1], source |-> a[2],
                  data |-> a[3], timestamp |-> history[i].timestamp]}
    /\ Cardinality(message) = Cardinality(CommitsOf(history, "create_message"))
    /\ Cardinality(event) = Cardinality(CommitsOf(history, "create_event"))

\* C13 witness: a create_message and a create_event with arguments of their
\* own are committed, the message at a later time than the event.
C13_Witness ==
    /\ \E r \in message : r.sender = "bob" /\ r.timestamp = 1
    /\ \E r \in event : r.event_type = "view" /\ r.timestamp = 0

\* C14: whenever create_message or create_event is about to insert, the
\* insert with placeholder id 0 succeeds and adds exactly one row; a finished
\* body holds exactly one row more than the committed table, and no
\* invocation ever ended with UniqueConstraintViolation.
C14_AppendNeverFails ==
    /\ Running("create_message", "insert") =>
          LET i == AutoIncInsert(tx.message, tx.seqs, "message",
                                 Message(0, tx.call.args[1], tx.call.args[2],
                                         tx.call.args[3], tx.timestamp)) IN
          i.err = "" /\ Cardinality(i.tbl) = Cardinality(tx.message) + 1
    /\ Running("create_event", "insert") =>
          LET i == AutoIncInsert(tx.event, tx.seqs, "event",
                                 Event(0, tx.call.args[1], tx.call.args[2],
                                       tx.call.args[3], tx.timestamp)) IN
          i.err = "" /\ Cardinality(i.tbl) = Cardinality(tx.event) + 1
    /\ Running("create_message", "done") =>
          Cardinality(tx.message \ message) = 1 /\ message \subseteq tx.message
    /\ Running("create_event", "done") =>
          Cardinality(tx.event \ event) = 1 /\ event \subseteq tx.event
    /\ last.status = "aborted" => last.err # "UniqueConstraintViolation"

\* C14 witness: create_event has inserted into a table that already holds the
\* row of an earlier, committed create_event.
C14_Witness ==
    /\ Running("create_event", "done")
    /\ Cardinality(event) = 1
    /\ Cardinality(tx.event) = 2
    /\ last.status = "committed"

KeysOf(tbl) == {r.name : r \in tbl}

\* C15: a committing increment_counter(name, amount) adds exactly one row
\* with value = amount when the name has no row, and otherwise replaces the
\* row of value v by one of the same name and value v + amount, the number of
\* rows and the set of primary keys staying the same.
C15_Upsert ==
    [][(tx.pc = "done" /\ tx.call.op = "increment_counter" /\ history' # history) =>
          LET n == tx.call.args[1]
              a == tx.call.args[2] IN
          IF RowsOf(counter, n) = {}
          THEN \E r \in counter' :
                  /\ r \notin counter
                  /\ counter' = counter \cup {r}
                  /\ r.name = n
                  /\ r.value = a
          ELSE /\ Cardinality(counter') = Cardinality(counter)
               /\ KeysOf(counter') = KeysOf(counter)
               /\ ValueOf(counter', n) = ValueOf(counter, n) + a]_vars

\* find(key): point lookup by primary key
PointFind(tbl, key) ==
    IF \E r \in tbl : r.name = key
    THEN CHOOSE r \in tbl : r.name = key
    ELSE None

\* the table after the body of increment_counter ran with lookup result ex
UpsertWith(tbl, ex, n, a, ts) ==
    IF ex = None
    THEN CounterInsert(tbl, Counter(n, a, ts))
    ELSE CounterInsert(CounterDelete(tbl, ex).tbl,
                       Counter(n, WrapI64(ex.value + a), ts))

\* C16: on every reachable Counter table and for every (name, amount), each
\* row the scan-plus-filter lookup can return, in whatever order the scan
\* yields the rows, is the row of the point lookup find(name), and the table
\* after increment_counter is the same with either lookup.
C16_ScanIsPointLookup ==
    \A tbl \in {counter} \cup (IF tx = NoTx THEN {} ELSE {tx.counter}) :
    \A n \in Names : \A a \in Amounts :
        \A ex \in CounterFind(tbl, n) :
            /\ ex = PointFind(tbl, n)
            /\ UpsertWith(tbl, ex, n, a, clock) =
                   UpsertWith(tbl, PointFind(tbl, n), n, a, clock)

\* C16 witness: an invocation looked up a name in a table that holds a row
\* for each of the two names, so that the scan meets a row to skip.
C16_Witness ==
    /\ Running("increment_counter", "add")
    /\ Cardinality(tx.counter) = 2
    /\ tx.existing \in tx.counter

OtherRows(tbl, n) == {r \in tbl : r.name # n}

\* C17: no step of an increment_counter(name, ..) invocation changes a Counter
\* row of another name, the Message or Event table or an id sequence; no step
\* of create_message changes the Counter or Event table or the Event
\* sequence; no step of create_event changes the Counter or Message table or
\* the Message sequence.
C17_Frame ==
    [][tx.pc # "idle" =>
          CASE tx.call.op = "increment_counter" ->
                 /\ OtherRows(counter', tx.call.args[1]) =
                        OtherRows(counter, tx.call.args[1])
                 /\ message' = message
                 /\ event' = event
                 /\ seqs' = seqs
            [] tx.call.op = "create_message" ->
                 /\ counter' = counter
                 /\ event' = event
                 /\ seqs'.event = seqs.event
            [] tx.call.op = "create_event" ->
                 /\ counter' = counter
                 /\ message' = message
                 /\ seqs'.message = seqs.message
            [] OTHER -> TRUE]_vars

\* C17 witness: with a row for another counter, a message and an event
\* present, an increment_counter was committed last.
C17_Witness ==
    /\ Len(history) = 3
    /\ IsInc(history[3], "visits")
    /\ RowsOf(counter, "clicks") # {}
    /\ message \cup event # {}

\* C18: inside increment_counter the delete is always issued for a row of
\* the transaction's table and each insert for a name without a live row, so
\* neither NotFound nor UniqueConstraintViolation ever ends an invocation.
C18_NoStoreErrors ==
    /\ Running("increment_counter", "delete") =>
          CounterDelete(tx.counter, tx.existing).err = ""
    /\ Running("increment_counter", "insert_upd") =>
          CounterInsert(tx.counter,
              Counter(tx.call.args[1], tx.new_value, tx.timestamp)).err = ""
    /\ Running("increment_counter", "insert_new") =>
          CounterInsert(tx.counter,
              Counter(tx.call.args[1], tx.call.args[2], tx.timestamp)).err = ""
    /\ last.status = "aborted" => last.err \in {"ReducerError", AddOverflow}

\* C18 witness: the update path has deleted the row it found and inserted
\* the new one, after an earlier invocation took the insert-only path.
C18_Witness ==
    /\ Running("increment_counter", "done")
    /\ tx.existing # None
    /\ tx.existing \in counter
    /\ tx.existing \notin tx.counter
    /\ RowsOf(tx.counter, tx.call.args[1]) # {}

=============================================================================
